---- MODULE Spec2Model ----
(***************************************************************************)
(* Model of the audio utilities (utils/audioUtils.ts): the capability      *)
(* probe getSupportedFormats, the real-time transcoder transcodeToBlob,    *)
(* the PCM decoder decodeAudioData and the WAV encoder audioBufferToWav.   *)
(*                                                                         *)
(* Three specifications share the variables:                               *)
(*   Spec       one transcodeToBlob call against the platform's recorder,  *)
(*              playback source and timer events;                          *)
(*   SpecProbe  calls of getSupportedFormats under a capability set;       *)
(*   SpecCodec  decodeAudioData followed by audioBufferToWav on inputs     *)
(*              drawn from bounded sets.                                   *)
(***************************************************************************)
EXTENDS Integers, Sequences, FiniteSets, TLC

VARIABLES
    caps,          \* the platform: [hasRecorder, supported (isTypeSupported)]
    \* ---- transcodeToBlob ----
    reqMime,       \* the mimeType argument ("none" before the call)
    ctxState,      \* the call's AudioContext: "none" | "running" | "closed"
    closeCalls,    \* number of ctx.close() calls made
    recState,      \* recorder.state: "none" (not constructed) | "recording" | "inactive"
    stopQueued,    \* the platform owes the final dataavailable/stop events
    stopDelivered, \* the stop event has been dispatched
    playback,      \* the buffer source: "none" | "playing" | "ended"
    timer,         \* the setTimeout of source.onended: "none" | "armed" | "fired"
    chunks,        \* const chunks: Blob[]
    promise,       \* the promise the call returned
    emitted,       \* history: every fragment the recorder dispatched, in order
    emittedAtStop, \* history: emitted, as it was when the stop event was dispatched
    log,           \* history: the platform calls and events of the call, in order
    \* ---- getSupportedFormats ----
    formats,       \* result of the latest call (<<>> before the first)
    formatsPrev,   \* result of the call before it
    probeCalls,    \* number of calls made
    \* ---- decodeAudioData / audioBufferToWav ----
    data,          \* the Uint8Array argument: [bytes, byteOffset]
    numChannels,   \* the numChannels argument
    decoded,       \* outcome of decodeAudioData
    wav,           \* bytes of the Blob audioBufferToWav returned (<<>> before)
    \* ---- App playback controller ----
    sources,       \* every AudioBufferSourceNode created: "playing" | "stopped"
                   \* (stop() called, its ended event not yet dispatched) | "ended"
    sourceNodeRef, \* sourceNodeRef.current: an index into sources, 0 for null
    isPlaying,     \* the isPlaying state
    audioBuffer,   \* the audioBuffer state is non-null
    isLoading      \* the isLoading state (a generateSpeech request is in flight)

transcodeVars == <<reqMime, ctxState, closeCalls, recState, stopQueued, stopDelivered,
                   playback, timer, chunks, promise, emitted, emittedAtStop, log>>
probeVars == <<formats, formatsPrev, probeCalls>>
codecVars == <<data, numChannels, decoded, wav>>
appVars == <<sources, sourceNodeRef, isPlaying, audioBuffer, isLoading>>
vars == <<caps, transcodeVars, probeVars, codecVars, appVars>>

\* ---------------------------------------------------------------- bounds
MaxFragments == 4      \* dataavailable events per call
MaxProbeCalls == 3     \* getSupportedFormats calls per behaviour
MaxSamples == 4        \* int16 samples in the decoded payload
MaxChannels == 3       \* numChannels argument
MaxSources == 4        \* playback sources created per behaviour

\* ---------------------------------------------------------------- platform
\* the MIME identifiers the platform may be asked about
Mimes == {"audio/wav", "audio/mp4", "audio/webm;codecs=opus", "audio/webm", "audio/ogg"}

\* a capability set: whether MediaRecorder exists, and what isTypeSupported accepts
\* (a runtime without MediaRecorder reports nothing)
CapabilitySets ==
    {[hasRecorder |-> TRUE, supported |-> s] : s \in SUBSET Mimes}
        \cup {[hasRecorder |-> FALSE, supported |-> {}]}

\* typeof MediaRecorder !== 'undefined' ; MediaRecorder.isTypeSupported(mime)
isTypeSupported(c, mime) == mime \in c.supported

\* ---------------------------------------------------------------- promise
PendingPromise == [state |-> "pending", value |-> <<>>, type |-> "none", error |-> "none"]
NoPromise == [state |-> "none", value |-> <<>>, type |-> "none", error |-> "none"]

\* (mutant) a result that the last callback overwrites
resolveOverwrites(p, blob) ==
    [state |-> "fulfilled", value |-> blob.parts, type |-> blob.type, error |-> "none"]

\* (mutant) an onstop handler whose resolve call is missing
resolveDropped(p, blob) == p

\* resolve(blob): settles the promise only while it is pending
resolve(p, blob) ==
    IF p.state = "pending"
    THEN [state |-> "fulfilled", value |-> blob.parts, type |-> blob.type, error |-> "none"]
    ELSE p

\* reject(e): settles the promise only while it is pending
reject(p, e) ==
    IF p.state = "pending"
    THEN [state |-> "rejected", value |-> <<>>, type |-> "none", error |-> e]
    ELSE p

\* ctx.close(): closes a running context; on a closed one the call changes nothing
\* (the promise it returns rejects, which nobody observes)
close(st) == IF st = "running" THEN "closed" ELSE st

\* new Blob(chunks, { type: mimeType }): the parts as they are at construction
Blob(parts, type) == [parts |-> parts, type |-> type]

\* ---------------------------------------------------------------- transcodeToBlob
\* new MediaRecorder(dest.stream, { mimeType }): "ok", or the error it throws
MediaRecorderCtor(c, mime) ==
    IF ~c.hasRecorder THEN "ReferenceError"
    ELSE IF ~isTypeSupported(c, mime) THEN "NotSupportedError"
    ELSE "ok"

\* (mutant) the handler without its size check
ondataavailableUnchecked(cs, e) == Append(cs, e)

\* recorder.ondataavailable: keeps the non-empty fragments, in arrival order
ondataavailable(cs, e) == IF e.size > 0 THEN Append(cs, e) ELSE cs

\* The synchronous part of transcodeToBlob(audioBuffer, mimeType): the context is
\* opened, the recorder constructed (which may throw: the async function then
\* returns a rejected promise), the handlers installed, the recorder and the
\* source started.
TranscodeToBlob(mime) ==
    /\ reqMime = "none"
    /\ reqMime' = mime
    /\ ctxState' = "running"
    /\ LET r == MediaRecorderCtor(caps, mime) IN
        IF r # "ok"
        THEN /\ promise' = reject(PendingPromise, r)
             /\ log' = log \o <<"ctx.open">>
             /\ UNCHANGED <<recState, playback>>
        ELSE /\ promise' = PendingPromise
             /\ recState' = "recording"
             /\ playback' = "playing"
             /\ log' = log \o <<"ctx.open", "recorder.start", "source.start">>
    /\ UNCHANGED <<caps, closeCalls, stopQueued, stopDelivered, timer, chunks,
                   emitted, emittedAtStop, probeVars, codecVars, appVars>>

\* The recorder dispatches a dataavailable event (while recording, with the final
\* flush after stop() or an error, or late); e.data has the given size.
DataAvailable(size) ==
    /\ recState # "none"
    /\ Len(emitted) < MaxFragments
    /\ LET e == [id |-> Len(emitted) + 1, size |-> size] IN
        /\ emitted' = Append(emitted, e)
        /\ chunks' = ondataavailable(chunks, e)
    /\ UNCHANGED <<caps, reqMime, ctxState, closeCalls, recState, stopQueued,
                   stopDelivered, playback, timer, promise, emittedAtStop, log,
                   probeVars, codecVars, appVars>>

\* The recorder fails mid-capture: it becomes inactive and dispatches the error
\* event (recorder.onerror); the final dataavailable and stop events follow.
RecorderError ==
    /\ recState = "recording"
    /\ recState' = "inactive"
    /\ stopQueued' = TRUE
    /\ ctxState' = close(ctxState)
    /\ closeCalls' = closeCalls + 1
    /\ promise' = reject(promise, "RecorderErrorEvent")
    /\ log' = Append(log, "error")
    /\ UNCHANGED <<caps, reqMime, stopDelivered, playback, timer, chunks, emitted,
                   emittedAtStop, probeVars, codecVars, appVars>>

\* The source finishes playing: source.onended arms the 100 ms timer.
PlaybackEnded ==
    /\ playback = "playing"
    /\ playback' = "ended"
    /\ timer' = "armed"
    /\ log' = Append(log, "ended")
    /\ UNCHANGED <<caps, reqMime, ctxState, closeCalls, recState, stopQueued,
                   stopDelivered, chunks, promise, emitted, emittedAtStop,
                   probeVars, codecVars, appVars>>

\* (mutant) the timer callback without its recorder.state check
GraceTimerUnguarded ==
    /\ timer = "armed"
    /\ timer' = "fired"
    /\ recState' = "inactive"
    /\ stopQueued' = TRUE
    /\ log' = log \o <<"timer", "recorder.stop">>
    /\ UNCHANGED <<caps, reqMime, ctxState, closeCalls, stopDelivered, playback,
                   chunks, promise, emitted, emittedAtStop, probeVars, codecVars, appVars>>

\* The timer fires: the recorder is stopped unless it is inactive already.
GraceTimer ==
    /\ timer = "armed"
    /\ timer' = "fired"
    /\ IF recState # "inactive"
       THEN /\ recState' = "inactive"
            /\ stopQueued' = TRUE
            /\ log' = log \o <<"timer", "recorder.stop">>
       ELSE /\ log' = Append(log, "timer")
            /\ UNCHANGED <<recState, stopQueued>>
    /\ UNCHANGED <<caps, reqMime, ctxState, closeCalls, stopDelivered, playback,
                   chunks, promise, emitted, emittedAtStop, probeVars, codecVars, appVars>>

\* The recorder dispatches the stop event (recorder.onstop).
StopEvent ==
    /\ stopQueued
    /\ stopQueued' = FALSE
    /\ stopDelivered' = TRUE
    /\ emittedAtStop' = emitted
    /\ ctxState' = close(ctxState)
    /\ closeCalls' = closeCalls + 1
    /\ promise' = resolve(promise, Blob(chunks, reqMime))
    /\ log' = Append(log, "stop")
    /\ UNCHANGED <<caps, reqMime, recState, playback, timer, chunks, emitted,
                   probeVars, codecVars, appVars>>

\* ---------------------------------------------------------------- getSupportedFormats
WavFormat == [label |-> "WAV (Uncompressed)", mimeType |-> "audio/wav", ext |-> "wav"]

\* const candidates
candidates ==
    << [mime |-> "audio/mp4", ext |-> "mp4", label |-> "MP4 (AAC)"],
       [mime |-> "audio/webm;codecs=opus", ext |-> "webm", label |-> "WebM (Opus)"],
       [mime |-> "audio/webm", ext |-> "webm", label |-> "WebM"],
       [mime |-> "audio/ogg", ext |-> "ogg", label |-> "Ogg (Vorbis)"] >>

\* (mutant) de-duplication by file extension instead of MIME identifier
findByExt(fs, c) == \E k \in 1..Len(fs) : fs[k].ext = c.ext

\* formats.find(f => f.mimeType === c.mime)
find(fs, c) == \E k \in 1..Len(fs) : fs[k].mimeType = c.mime

\* candidates.forEach(...), from candidate i on
RECURSIVE forEach(_, _, _)
forEach(cp, fs, i) ==
    IF i > Len(candidates) THEN fs
    ELSE LET c == candidates[i] IN
         forEach(cp,
                 IF isTypeSupported(cp, c.mime) /\ ~find(fs, c)
                 THEN Append(fs, [label |-> c.label, mimeType |-> c.mime, ext |-> c.ext])
                 ELSE fs,
                 i + 1)

getSupportedFormats(cp) ==
    IF cp.hasRecorder THEN forEach(cp, <<WavFormat>>, 1) ELSE <<WavFormat>>

\* A call of getSupportedFormats().
GetSupportedFormats ==
    /\ probeCalls < MaxProbeCalls
    /\ probeCalls' = probeCalls + 1
    /\ formatsPrev' = formats
    /\ formats' = getSupportedFormats(caps)
    /\ UNCHANGED <<caps, transcodeVars, codecVars, appVars>>

\* ---------------------------------------------------------------- numbers
\* A JavaScript number is modelled as the rational n/d (d > 0), NaN as 0/0.  Every
\* value met here (an int16 over 32768, times 0x7FFF or 0x8000) is exact in a double.
NaN == [n |-> 0, d |-> 0]
isNaN(x) == x.d = 0
Num(k) == [n |-> k, d |-> 1]
Less(x, y) == ~isNaN(x) /\ ~isNaN(y) /\ x.n * y.d < y.n * x.d
Times(x, k) == IF isNaN(x) THEN NaN ELSE [n |-> x.n * k, d |-> x.d]
Over(k, m) == [n |-> k, d |-> m]

\* Math.min(a, b), Math.max(a, b)
MathMin(x, y) == IF isNaN(x) \/ isNaN(y) THEN NaN ELSE IF Less(y, x) THEN y ELSE x
MathMax(x, y) == IF isNaN(x) \/ isNaN(y) THEN NaN ELSE IF Less(x, y) THEN y ELSE x

\* truncation toward zero, as the integer conversions do (NaN gives 0)
Trunc(x) ==
    IF isNaN(x) THEN 0
    ELSE IF x.n >= 0 THEN x.n \div x.d ELSE -((-x.n) \div x.d)

\* little-endian bytes of the low 16 bits of an integer
LE16(k) == LET u == k % 65536 IN << u % 256, u \div 256 >>
\* little-endian bytes of an unsigned 32-bit field (every value written here is
\* non-negative and below 2^31, so the reduction modulo 2^32 never acts)
LE32(k) == << k % 256, (k \div 256) % 256, (k \div 65536) % 256, (k \div 16777216) % 256 >>

\* ---------------------------------------------------------------- DataView
\* view.setUint8/16/32(offset, ...): the bytes written at a 0-based offset
RECURSIVE setBytes(_, _, _)
setBytes(view, offset, bs) ==
    IF bs = <<>> THEN view
    ELSE setBytes([view EXCEPT ![offset + 1] = Head(bs)], offset + 1, Tail(bs))

setUint32(view, offset, k) == setBytes(view, offset, LE32(k))
setUint16(view, offset, k) == setBytes(view, offset, LE16(k))
\* view.setInt16(offset, x, true): x is converted by truncation, modulo 2^16
setInt16(view, offset, x) == setBytes(view, offset, LE16(Trunc(x)))

\* writeString(view, offset, string), the string given by its char codes
writeString(view, offset, codes) == setBytes(view, offset, codes)

RIFF == <<82, 73, 70, 70>>
WAVE == <<87, 65, 86, 69>>
FMT == <<102, 109, 116, 32>>
DATA == <<100, 97, 116, 97>>

\* ---------------------------------------------------------------- decodeAudioData
SampleRate == 24000

\* (mutant) new Int16Array(data.buffer): throws on a byte length that is not even
Int16ArrayWhole(d) ==
    LET len == Len(d.bytes) \div 2
        at(i) == LET u == d.bytes[2 * i - 1] + 256 * d.bytes[2 * i]
                 IN IF u >= 32768 THEN u - 65536 ELSE u
    IN IF d.byteOffset % 2 # 0 \/ Len(d.bytes) % 2 # 0
       THEN [error |-> "RangeError", elems |-> <<>>]
       ELSE [error |-> "none", elems |-> [i \in 1..len |-> at(i)]]

\* new Int16Array(data.buffer, data.byteOffset, data.byteLength / 2): the length is
\* converted to an integer by truncation; an odd byteOffset throws
Int16ArrayCtor(d) ==
    LET len == Len(d.bytes) \div 2
        at(i) == LET u == d.bytes[2 * i - 1] + 256 * d.bytes[2 * i]
                 IN IF u >= 32768 THEN u - 65536 ELSE u
    IN IF d.byteOffset % 2 # 0
       THEN [error |-> "RangeError", elems |-> <<>>]
       ELSE [error |-> "none", elems |-> [i \in 1..len |-> at(i)]]

\* ctx.createBuffer(numberOfChannels, length, sampleRate): length is converted to an
\* unsigned long by truncation (it is non-negative and far below 2^32 here); zero
\* channels or frames, or a rate out of range, throw
createBuffer(nch, length, rate) ==
    LET len == Trunc(length) IN
    IF nch < 1 \/ nch > 32 \/ len < 1 \/ rate < 8000 \/ rate > 96000
    THEN [error |-> "NotSupportedError", numberOfChannels |-> 0, length |-> 0,
          sampleRate |-> 0, channelData |-> <<>>]
    ELSE [error |-> "none", numberOfChannels |-> nch, length |-> len,
          sampleRate |-> rate,
          channelData |-> [c \in 1..nch |-> [i \in 1..len |-> Num(0)]]]

\* dataInt16[idx] / 32768.0 (an index past the end reads undefined, giving NaN)
sampleAt(dataInt16, idx) ==
    IF idx < Len(dataInt16) THEN Over(dataInt16[idx + 1], 32768) ELSE NaN

\* channelData[i] = x (a write past the end of a typed array is ignored)
store(channelData, i, x) ==
    IF i < Len(channelData) THEN [channelData EXCEPT ![i + 1] = x] ELSE channelData

\* for (let i = 0; i < frameCount; i++) channelData[i] = ..., from frame i on
RECURSIVE fillChannel(_, _, _, _, _, _)
fillChannel(channelData, dataInt16, frameCount, nch, channel, i) ==
    IF ~Less(Num(i), frameCount) THEN channelData
    ELSE fillChannel(store(channelData, i, sampleAt(dataInt16, i * nch + channel)),
                     dataInt16, frameCount, nch, channel, i + 1)

decodeAudioData(d, rate, nch) ==
    LET a == Int16ArrayCtor(d)
        dataInt16 == a.elems
        frameCount == Over(Len(dataInt16), nch)
        buffer == createBuffer(nch, frameCount, rate)
    IN IF a.error # "none" THEN [status |-> "rejected", error |-> a.error, buffer |-> buffer]
       ELSE IF buffer.error # "none"
       THEN [status |-> "rejected", error |-> buffer.error, buffer |-> buffer]
       ELSE [status |-> "fulfilled", error |-> "none",
             buffer |-> [buffer EXCEPT !.channelData =
                            [c \in 1..nch |->
                                fillChannel(buffer.channelData[c], dataInt16,
                                            frameCount, nch, c - 1, 0)]]]

\* ---------------------------------------------------------------- audioBufferToWav
\* (mutant) the channels one after the other instead of alternating
interleavePlanar(inputL, inputR) == inputL \o inputR

RECURSIVE interleaveFrom(_, _, _, _)
interleaveFrom(inputL, inputR, length, inputIndex) ==
    IF ~(2 * inputIndex < length) THEN <<>>
    ELSE <<inputL[inputIndex + 1], inputR[inputIndex + 1]>>
            \o interleaveFrom(inputL, inputR, length, inputIndex + 1)

interleave(inputL, inputR) == interleaveFrom(inputL, inputR, Len(inputL) + Len(inputR), 0)

\* one sample of floatTo16BitPCM: clamp, scale by 0x8000 or 0x7FFF
scaled(x) ==
    LET s == MathMax(Num(-1), MathMin(Num(1), x))
    IN IF Less(s, Num(0)) THEN Times(s, 32768) ELSE Times(s, 32767)

RECURSIVE floatTo16BitPCM(_, _, _, _)
floatTo16BitPCM(output, offset, input, i) ==
    IF i >= Len(input) THEN output
    ELSE floatTo16BitPCM(setInt16(output, offset, scaled(input[i + 1])),
                         offset + 2, input, i + 1)

\* (mutant) the RIFF chunk length counting the whole file
encodeWAVWholeFile(samples, format, sampleRate, nch, bitDepth) ==
    LET bytesPerSample == bitDepth \div 8
        blockAlign == nch * bytesPerSample
        size == 44 + Len(samples) * bytesPerSample
        v0 == [i \in 1..size |-> 0]
        v1 == writeString(v0, 0, RIFF)
        v2 == setUint32(v1, 4, 44 + Len(samples) * bytesPerSample)
        v3 == writeString(v2, 8, WAVE)
        v4 == writeString(v3, 12, FMT)
        v5 == setUint32(v4, 16, 16)
        v6 == setUint16(v5, 20, format)
        v7 == setUint16(v6, 22, nch)
        v8 == setUint32(v7, 24, sampleRate)
        v9 == setUint32(v8, 28, sampleRate * blockAlign)
        v10 == setUint16(v9, 32, blockAlign)
        v11 == setUint16(v10, 34, bitDepth)
        v12 == writeString(v11, 36, DATA)
        v13 == setUint32(v12, 40, Len(samples) * bytesPerSample)
    IN floatTo16BitPCM(v13, 44, samples, 0)

encodeWAV(samples, format, sampleRate, nch, bitDepth) ==
    LET bytesPerSample == bitDepth \div 8
        blockAlign == nch * bytesPerSample
        size == 44 + Len(samples) * bytesPerSample
        v0 == [i \in 1..size |-> 0]
        v1 == writeString(v0, 0, RIFF)
        v2 == setUint32(v1, 4, 36 + Len(samples) * bytesPerSample)
        v3 == writeString(v2, 8, WAVE)
        v4 == writeString(v3, 12, FMT)
        v5 == setUint32(v4, 16, 16)
        v6 == setUint16(v5, 20, format)
        v7 == setUint16(v6, 22, nch)
        v8 == setUint32(v7, 24, sampleRate)
        v9 == setUint32(v8, 28, sampleRate * blockAlign)
        v10 == setUint16(v9, 32, blockAlign)
        v11 == setUint16(v10, 34, bitDepth)
        v12 == writeString(v11, 36, DATA)
        v13 == setUint32(v12, 40, Len(samples) * bytesPerSample)
    IN floatTo16BitPCM(v13, 44, samples, 0)

audioBufferToWav(buffer) ==
    LET result == IF buffer.numberOfChannels = 2
                  THEN interleave(buffer.channelData[1], buffer.channelData[2])
                  ELSE buffer.channelData[1]
    IN encodeWAV(result, 1, buffer.sampleRate, buffer.numberOfChannels, 16)

NotDecoded ==
    [status |-> "none", error |-> "none",
     buffer |-> [error |-> "none", numberOfChannels |-> 0, length |-> 0,
                 sampleRate |-> 0, channelData |-> <<>>]]

\* A call of decodeAudioData(data, ctx, 24000, nch), awaited.
DecodeAudioData(nch) ==
    /\ decoded.status = "none"
    /\ numChannels' = nch
    /\ decoded' = decodeAudioData(data, SampleRate, nch)
    /\ UNCHANGED <<caps, transcodeVars, probeVars, data, wav, appVars>>

\* A call of audioBufferToWav on the decoded buffer.
AudioBufferToWav ==
    /\ decoded.status = "fulfilled"
    /\ wav = <<>>
    /\ wav' = audioBufferToWav(decoded.buffer)
    /\ UNCHANGED <<caps, transcodeVars, probeVars, data, numChannels, decoded, appVars>>

\* ---------------------------------------------------------------- App playback
\* source.stop(): a playing source stops and owes its ended event; on a source
\* that has ended already the call has no effect
stop(srcs, ref) ==
    IF ref # 0 /\ srcs[ref] = "playing" THEN [srcs EXCEPT ![ref] = "stopped"] ELSE srcs

\* playBuffer(buffer): stops the source the ref holds, creates and starts a new
\* one, stores it in the ref and sets isPlaying
playBuffer ==
    /\ sources' = Append(stop(sources, sourceNodeRef), "playing")
    /\ sourceNodeRef' = Len(sources) + 1
    /\ isPlaying' = TRUE

\* handleStop(): stops the source the ref holds, clears the ref and isPlaying
handleStop ==
    /\ sources' = stop(sources, sourceNodeRef)
    /\ sourceNodeRef' = 0
    /\ isPlaying' = FALSE

\* The Play button (enabled while audioBuffer && !isPlaying): handlePlay.
HandlePlay ==
    /\ audioBuffer /\ ~isPlaying
    /\ Len(sources) < MaxSources
    /\ playBuffer
    /\ UNCHANGED <<caps, transcodeVars, probeVars, codecVars, audioBuffer, isLoading>>

\* The Stop button (enabled while isPlaying): handleStop.
HandleStop ==
    /\ isPlaying
    /\ handleStop
    /\ UNCHANGED <<caps, transcodeVars, probeVars, codecVars, audioBuffer, isLoading>>

\* The Generate button (enabled while !isLoading): handleGenerate up to its await.
HandleGenerate ==
    /\ ~isLoading
    /\ handleStop
    /\ audioBuffer' = FALSE
    /\ isLoading' = TRUE
    /\ UNCHANGED <<caps, transcodeVars, probeVars, codecVars>>

\* generateSpeech and decodeAudioData resolved: the buffer is stored and played.
GenerateResolved ==
    /\ isLoading
    /\ Len(sources) < MaxSources
    /\ audioBuffer' = TRUE
    /\ playBuffer
    /\ isLoading' = FALSE
    /\ UNCHANGED <<caps, transcodeVars, probeVars, codecVars>>

\* generateSpeech or the decoding failed: the catch and finally blocks.
GenerateFailed ==
    /\ isLoading
    /\ isLoading' = FALSE
    /\ UNCHANGED <<caps, transcodeVars, probeVars, codecVars, sources, sourceNodeRef,
                   isPlaying, audioBuffer>>

\* Source i dispatches its ended event (it played to its end, or stop() was
\* called on it earlier): source.onended clears isPlaying.
SourceEnded(i) ==
    /\ sources[i] \in {"playing", "stopped"}
    /\ sources' = [sources EXCEPT ![i] = "ended"]
    /\ isPlaying' = FALSE
    /\ UNCHANGED <<caps, transcodeVars, probeVars, codecVars, sourceNodeRef,
                   audioBuffer, isLoading>>

\* ---------------------------------------------------------------- inputs
\* int16 sample values of the payloads: the extremes, halves, quarters and zero
SampleValues == {-32768, -16384, -8192, 0, 8192, 16384, 32767}

PcmStreams == UNION {[1..k -> SampleValues] : k \in 0..MaxSamples}

RECURSIVE toBytes(_)
toBytes(pcm) == IF pcm = <<>> THEN <<>> ELSE LE16(Head(pcm)) \o toBytes(Tail(pcm))

\* decodeBase64 returns a fresh Uint8Array (byteOffset 0) of any length: whole
\* samples, possibly followed by one odd byte
Payloads ==
    {[bytes |-> toBytes(pcm) \o odd, byteOffset |-> 0] :
        pcm \in PcmStreams, odd \in {<<>>, <<1>>}}

\* ---------------------------------------------------------------- specifications
TranscodeIdle ==
    /\ reqMime = "none"
    /\ ctxState = "none"
    /\ closeCalls = 0
    /\ recState = "none"
    /\ stopQueued = FALSE
    /\ stopDelivered = FALSE
    /\ playback = "none"
    /\ timer = "none"
    /\ chunks = <<>>
    /\ promise = NoPromise
    /\ emitted = <<>>
    /\ emittedAtStop = <<>>
    /\ log = <<>>

ProbeIdle ==
    /\ formats = <<>>
    /\ formatsPrev = <<>>
    /\ probeCalls = 0

CodecIdle ==
    /\ numChannels = 0
    /\ decoded = NotDecoded
    /\ wav = <<>>

AppIdle ==
    /\ sources = <<>>
    /\ sourceNodeRef = 0
    /\ isPlaying = FALSE
    /\ audioBuffer = FALSE
    /\ isLoading = FALSE

NoPayload == [bytes |-> <<>>, byteOffset |-> 0]
NoRecorder == [hasRecorder |-> FALSE, supported |-> {}]

Init ==
    /\ caps \in CapabilitySets
    /\ TranscodeIdle
    /\ ProbeIdle
    /\ CodecIdle
    /\ AppIdle
    /\ data = NoPayload

Next ==
    \/ \E mime \in Mimes : TranscodeToBlob(mime)
    \/ \E size \in {0, 1} : DataAvailable(size)
    \/ RecorderError
    \/ PlaybackEnded
    \/ GraceTimer
    \/ StopEvent

Spec == Init /\ [][Next]_vars

\* The platform is fair to a call: playback ends, the armed timer fires, and a
\* recorder that was stopped or failed dispatches its stop event.
SpecFair ==
    /\ Spec
    /\ WF_vars(PlaybackEnded)
    /\ WF_vars(GraceTimer)
    /\ WF_vars(StopEvent)

InitProbe == Init

NextProbe == GetSupportedFormats

SpecProbe == InitProbe /\ [][NextProbe]_vars

InitCodec ==
    /\ caps = NoRecorder
    /\ TranscodeIdle
    /\ ProbeIdle
    /\ CodecIdle
    /\ AppIdle
    /\ data \in Payloads

NextCodec ==
    \/ \E nch \in 1..MaxChannels : DecodeAudioData(nch)
    \/ AudioBufferToWav

SpecCodec == InitCodec /\ [][NextCodec]_vars

InitApp ==
    /\ caps = NoRecorder
    /\ TranscodeIdle
    /\ ProbeIdle
    /\ CodecIdle
    /\ AppIdle
    /\ data = NoPayload

NextApp ==
    \/ HandlePlay
    \/ HandleStop
    \/ HandleGenerate
    \/ GenerateResolved
    \/ GenerateFailed
    \/ \E i \in 1..Len(sources) : SourceEnded(i)

SpecApp == InitApp /\ [][NextApp]_vars

\* ---------------------------------------------------------------- readers
\* the fields of an encoded WAV, read back from its bytes (0-based offsets)
U16At(bs, off) == bs[off + 1] + 256 * bs[off + 2]
U32At(bs, off) ==
    bs[off + 1] + 256 * bs[off + 2] + 65536 * bs[off + 3] + 16777216 * bs[off + 4]
S16At(bs, off) == LET u == U16At(bs, off) IN IF u >= 32768 THEN u - 65536 ELSE u
\* the int16 samples of the payload that follows the 44-byte header
Payload(bs) == [i \in 1..((Len(bs) - 44) \div 2) |-> S16At(bs, 44 + 2 * (i - 1))]

Settled == promise.state \in {"fulfilled", "rejected"}
Happened(ev) == \E i \in 1..Len(log) : log[i] = ev
NonEmpty(e) == e.size > 0

\* ---------------------------------------------------------------- claims

\* C1: the context a transcodeToBlob call opened is closed exactly once: never
\* more than once, and once by the time the call's result is settled.
C1_ContextClosedExactlyOnce ==
    /\ closeCalls <= 1
    /\ Settled => closeCalls = 1

\* C2: when the platform rejects the MIME type at recorder construction, the call
\* fails with the unsupported-format error and its context is already closed.
C2_UnsupportedFailsWithContextClosed ==
    (reqMime # "none" /\ caps.hasRecorder /\ ~isTypeSupported(caps, reqMime))
        => /\ promise.state = "rejected"
           /\ promise.error = "NotSupportedError"
           /\ ctxState = "closed"

\* C3: once the recorder has signalled an error mid-capture the call's outcome is
\* that failure; no later stop event or timer turns it into a blob.
C3_ErrorMeansFailure ==
    Happened("error")
        => /\ promise.state = "rejected"
           /\ promise.error = "RecorderErrorEvent"

C3_Witness ==
    /\ Happened("error")
    /\ stopDelivered
    /\ timer = "fired"
    /\ chunks # <<>>

\* C4: a fulfilled call returns the non-empty fragments dispatched before the stop
\* event, each once and in arrival order, tagged with the requested mimeType.
C4_BlobIsFragmentsInOrder ==
    promise.state = "fulfilled"
        => /\ promise.value = SelectSeq(emittedAtStop, NonEmpty)
           /\ promise.type = reqMime

C4_Witness ==
    /\ promise.state = "fulfilled"
    /\ Len(promise.value) >= 2
    /\ \E i \in 1..Len(emittedAtStop) : emittedAtStop[i].size = 0
    /\ Len(emitted) > Len(emittedAtStop)
    /\ emitted[Len(emitted)].size > 0

\* C5: getSupportedFormats returns WAV first, then exactly the candidates the
\* platform reports as supported, in candidate order, no MIME identifier twice;
\* two calls under the same capability set return the same sequence.
C5_Reported(mime) == caps.hasRecorder /\ mime \in caps.supported
C5_Expected ==
    <<"audio/wav">> \o
    SelectSeq(<<"audio/mp4", "audio/webm;codecs=opus", "audio/webm", "audio/ogg">>,
              C5_Reported)

C5_FormatsAreWavThenSupported ==
    probeCalls >= 1
        => /\ formats[1] = WavFormat
           /\ [i \in 1..Len(formats) |-> formats[i].mimeType] = C5_Expected
           /\ \A i, j \in 1..Len(formats) :
                 formats[i].mimeType = formats[j].mimeType => i = j
           /\ probeCalls >= 2 => formatsPrev = formats

C5_Witness ==
    /\ probeCalls = 2
    /\ caps.supported = {"audio/wav", "audio/webm;codecs=opus", "audio/webm"}
    /\ Len(formats) = 3

\* C6: with at least one whole frame in the input, decodeAudioData succeeds and the
\* buffer has floor(byteLength / 2 / channels) frames in each channel; an odd
\* trailing byte or a partial frame is dropped.
C6_Frames == (Len(data.bytes) \div 2) \div numChannels

C6_DecodeTruncates ==
    (decoded.status # "none" /\ C6_Frames >= 1)
        => /\ decoded.status = "fulfilled"
           /\ decoded.buffer.length = C6_Frames
           /\ decoded.buffer.numberOfChannels = numChannels
           /\ \A c \in 1..numChannels :
                 /\ Len(decoded.buffer.channelData[c]) = C6_Frames
                 /\ \A i \in 1..C6_Frames : ~isNaN(decoded.buffer.channelData[c][i])

C6_Witness ==
    /\ decoded.status = "fulfilled"
    /\ Len(data.bytes) = 7
    /\ numChannels = 2
    /\ decoded.buffer.length = 1

\* C7: on an input whose frame count would be zero decodeAudioData fails with
\* MalformedInputError and returns no buffer.
C7_ZeroFramesMalformed ==
    (decoded.status # "none" /\ C6_Frames = 0)
        => /\ decoded.status = "rejected"
           /\ decoded.error = "MalformedInputError"
           /\ decoded.buffer.channelData = <<>>

\* C8: the encoded blob is 44 + dataSize bytes long, ChunkSize is 36 + dataSize and
\* Subchunk2Size is dataSize, dataSize being twice the number of samples written
\* (both channels of a stereo buffer, channel 0 otherwise); a mono buffer of F
\* frames gives 44 + 2F bytes.
C8_SamplesWritten ==
    IF decoded.buffer.numberOfChannels = 2
    THEN 2 * decoded.buffer.length
    ELSE decoded.buffer.length

C8_WavSizes ==
    wav # <<>>
        => LET dataSize == 2 * C8_SamplesWritten IN
           /\ Len(wav) = 44 + dataSize
           /\ U32At(wav, 4) = 36 + dataSize
           /\ U32At(wav, 40) = dataSize
           /\ decoded.buffer.numberOfChannels = 1
                 => Len(wav) = 44 + decoded.buffer.length * 2

C8_Witness ==
    /\ wav # <<>>
    /\ decoded.buffer.numberOfChannels = 1
    /\ decoded.buffer.length = 3

\* C9: a stereo buffer of F frames is written as 2F samples L0,R0,L1,R1,...,
\* each the float scaled by 32767 (positive) or 32768 (negative) and truncated;
\* L = [0.5,-0.5], R = [0.25,-0.25] gives [16383, 8191, -16384, -8192].
C9_Convert(x) ==
    IF x.n >= 0 THEN (x.n * 32767) \div x.d ELSE -(((-x.n) * 32768) \div x.d)
C9_Is(x, p, q) == ~isNaN(x) /\ x.n * q = p * x.d
C9_Example ==
    /\ decoded.buffer.numberOfChannels = 2
    /\ decoded.buffer.length = 2
    /\ C9_Is(decoded.buffer.channelData[1][1], 1, 2)
    /\ C9_Is(decoded.buffer.channelData[1][2], -1, 2)
    /\ C9_Is(decoded.buffer.channelData[2][1], 1, 4)
    /\ C9_Is(decoded.buffer.channelData[2][2], -1, 4)

C9_StereoInterleaved ==
    (wav # <<>> /\ decoded.buffer.numberOfChannels = 2)
        => LET F == decoded.buffer.length
               L == decoded.buffer.channelData[1]
               R == decoded.buffer.channelData[2]
           IN /\ Len(Payload(wav)) = 2 * F
              /\ \A i \in 0..(F - 1) :
                    /\ Payload(wav)[2 * i + 1] = C9_Convert(L[i + 1])
                    /\ Payload(wav)[2 * i + 2] = C9_Convert(R[i + 1])
              /\ C9_Example => Payload(wav) = <<16383, 8191, -16384, -8192>>

C9_Witness == wav # <<>> /\ C9_Example

\* C10: decoding the int16 samples -32768 and 32767 (mono) and encoding the result
\* reproduces -32768 and 32767 in the WAV payload.
C10_ExtremesReproduced ==
    (wav # <<>> /\ numChannels = 1 /\ data.bytes = <<0, 128, 255, 127>>)
        => Payload(wav) = <<-32768, 32767>>

\* C11: every int16 sample n that is decoded (mono) and encoded again comes back
\* as an int16 m with |m - n| < 1, i.e. within 1/32768 of n/32768 when re-decoded.
C11_RoundTripWithinTolerance ==
    (wav # <<>> /\ numChannels = 1)
        => \A i \in 1..Len(Payload(wav)) :
             LET n == S16At(data.bytes, 2 * (i - 1))
                 m == Payload(wav)[i]
             IN m - n < 1 /\ n - m < 1

\* C14: the WAV header is self-consistent for every channel count: Subchunk2Size
\* is the frame count times BlockAlign.
C14_DataSizeIsFramesTimesBlockAlign ==
    wav # <<>> => U32At(wav, 40) = decoded.buffer.length * U16At(wav, 32)

\* C12: the recorder is started before the source; recorder.stop() is requested
\* only after the playback-ended event and the timer that followed it, at most
\* once, and never on a recorder that an error or an earlier stop made inactive.
C12_StepsOrdered ==
    /\ \A i \in 1..Len(log) :
          log[i] = "source.start" => \E j \in 1..(i - 1) : log[j] = "recorder.start"
    /\ \A i \in 1..Len(log) :
          log[i] = "recorder.stop"
              => /\ \E k \in 1..(i - 1) :
                       /\ log[k] = "timer"
                       /\ \E j \in 1..(k - 1) : log[j] = "ended"
                 /\ \A j \in 1..(i - 1) : log[j] \notin {"error", "recorder.stop"}

C12_Witness ==
    /\ Happened("recorder.stop")
    /\ stopDelivered
    /\ promise.state = "fulfilled"

\* C13: under a fair platform every call eventually has a result, and a result
\* once delivered never changes (one result per call).
C13_EventuallyOneResult ==
    /\ (reqMime # "none") ~> Settled
    /\ [][Settled => promise' = promise]_vars

C13_Witness ==
    /\ promise.state = "rejected"
    /\ Happened("error")
    /\ Happened("stop")
    /\ closeCalls = 2

\* C15: while the most recently started source is still playing, isPlaying is
\* true; the ended event of an earlier, stopped source does not clear it.
C15_IsPlayingWhileLatestPlays ==
    (Len(sources) > 0 /\ sources[Len(sources)] = "playing") => isPlaying

====
